---------------------------- MODULE Spec2Model ----------------------------
(***************************************************************************)
(* auto_rustup_update: the update-decision engine of src/src/lib.rs.       *)
(*                                                                         *)
(* The model keeps the suppression flag file (absent, or present with its  *)
(* st_mtime in seconds), the wall clock, and the position of each          *)
(* auto_update() run.  Text is kept as tuples of one-character strings, so *)
(* that splitting, substring search and the semantic-version scan are      *)
(* computed as the code computes them.                                     *)
(*                                                                         *)
(* Option<T> is a tuple: None is <<>> and Some(v) is <<v>>.                *)
(***************************************************************************)
EXTENDS Integers, Sequences, FiniteSets, TLC

VARIABLES
    now,          \* wall clock, whole seconds since the Unix epoch
    ticks,        \* how many times the clock has advanced
    flag,         \* ~/.rustup/donotupdate: None, or Some(st_mtime)
    pc,           \* per run: where auto_update() stands
    new_versions, \* per run: the parsed report (name -> Option<version>)
    outcome,      \* per run: how the run ended
    startedAt,    \* per run: clock when auto_update() was entered
    flagAtStart,  \* per run: the flag when auto_update() was entered
    checked,      \* per run: None, or Some(<<clock, flag, result of open()>>) of should_prompt()
    dialogs,      \* per run: zenity processes spawned
    upgrades,     \* per run: gnome-terminal processes spawned
    writes,       \* per run: set_no_update_flag() calls made
    pred,         \* per run: the summary of the run that ended before it
    declinedAt,   \* None, or Some(clock) of the decline the flag stands for
    lastDecline,  \* None, or Some(clock) of the last decline written, cleared or not
    rustup_lines, \* per run: None, or Some(lines) get_rustup_check() returned
    raced,        \* whether a run was ever entered while another was under way
    answer,       \* per run: "none", or what prompt_for_update() came to
    asked,        \* per run: None, or Some(<<clock, declinedAt, lastDecline>>)
                  \* as they stood when zenity was spawned
    call          \* the last direct call of a library function, and its result

vars == <<now, ticks, flag, pc, new_versions, outcome, startedAt, flagAtStart,
          checked, dialogs, upgrades, writes, pred, declinedAt, lastDecline,
          rustup_lines, raced, answer, asked, call>>

runVars == <<pc, new_versions, outcome, startedAt, flagAtStart, checked,
             dialogs, upgrades, writes, pred, declinedAt, lastDecline,
             rustup_lines, raced, answer, asked>>

-----------------------------------------------------------------------------
(* Bounds and the values inputs are drawn from.                            *)

\* How many times the clock may advance in one behaviour.
MaxTicks == 2

\* The same, while runs interleave.
MaxRaceTicks == 1

\* The two processes that may run auto_update().
Runs == {1, 2}

\* The clock at the first state, and the amounts it advances by.
StartNows == {0, 86401}
TickSteps == {1, 86400}

\* Modification times the flag file may carry before the first run
\* (before the epoch, at the epoch, and a day and a second after it).
InitMtimes == {-1, 0, 86401}

-----------------------------------------------------------------------------
(* Option<T>.                                                              *)

None == <<>>
Some(v) == <<v>>
Unwrap(o) == o[1]

-----------------------------------------------------------------------------
(* The suppression flag.                                                   *)

\* const NO_UPDATE_FLAG_DELAY: u64 = 60 * 60 * 24;
NO_UPDATE_FLAG_DELAY == 60 * 60 * 24

\* What a file-system call on the flag can come back with.  "Denied"
\* stands for every io::ErrorKind other than NotFound.
fs_result(f, denied) ==
    IF denied THEN "Denied" ELSE IF f = None THEN "NotFound" ELSE "Ok"

\* read_no_update_flag(): fs::File::open(path); NotFound returns None, an
\* open file returns Some(st_mtime), and any other error leaves the match
\* and reaches the final `return None`.
read_no_update_flag(f, denied) ==
    LET res == fs_result(f, denied) IN
    IF res = "Ok" THEN Some(Unwrap(f)) ELSE None

\* The removal gone wrong: a missing file is an error too.
remove_step_strict(f, denied) ==
    [flag |-> IF denied THEN f ELSE None, ok |-> fs_result(f, denied) = "Ok"]

\* set_no_update_flag, first half: fs::remove_file(&path); an error other
\* than NotFound is returned to the caller.
remove_step(f, denied) ==
    [flag |-> IF denied THEN f ELSE None, ok |-> fs_result(f, denied) # "Denied"]

\* The creation gone wrong: nothing is written.
create_step_nothing(f, t, denied) == [flag |-> f, ok |-> ~denied]

\* set_no_update_flag, second half: fs::File::create(&path)? makes a new,
\* empty file whose mtime is the clock.
create_step(f, t, denied) ==
    [flag |-> IF denied THEN f ELSE Some(t), ok |-> ~denied]

\* set_no_update_flag gone wrong: the argument is ignored and a flag written.
set_no_update_flag_always(write_new_flag, f, t, rmDenied, crDenied) ==
    create_step(remove_step(f, rmDenied).flag, t, crDenied)

\* set_no_update_flag(write_new_flag) run to its end at clock t: the flag
\* it leaves and whether it returned Ok(()).
set_no_update_flag(write_new_flag, f, t, rmDenied, crDenied) ==
    LET rm == remove_step(f, rmDenied) IN
    IF ~rm.ok THEN rm
    ELSE IF write_new_flag THEN create_step(rm.flag, t, crDenied)
    ELSE rm

\* should_prompt gone wrong: the comparison with the delay is not strict.
should_prompt_le(f, t, denied) ==
    LET r == read_no_update_flag(f, denied) IN
    IF r = None THEN TRUE
    ELSE LET write_time == Unwrap(r) IN
         IF write_time < 0 THEN TRUE
         ELSE IF t < write_time THEN TRUE
         ELSE NO_UPDATE_FLAG_DELAY <= t - write_time

\* should_prompt gone wrong: a timestamp ahead of the clock is not caught.
should_prompt_no_future(f, t, denied) ==
    LET r == read_no_update_flag(f, denied) IN
    IF r = None THEN TRUE
    ELSE LET write_time == Unwrap(r) IN
         IF write_time < 0 THEN TRUE
         ELSE NO_UPDATE_FLAG_DELAY < t - write_time

\* should_prompt(), with the clock it reads passed in.
\* should_prompt gone wrong: the comparison with the delay is turned round.
should_prompt_reversed(f, t, denied) ==
    LET r == read_no_update_flag(f, denied) IN
    IF r = None THEN TRUE
    ELSE LET write_time == Unwrap(r) IN
         IF write_time < 0 THEN TRUE
         ELSE IF t < write_time THEN TRUE
         ELSE t - write_time < NO_UPDATE_FLAG_DELAY

should_prompt(f, t, denied) ==
    LET r == read_no_update_flag(f, denied) IN
    IF r = None THEN TRUE
    ELSE LET write_time == Unwrap(r) IN
         IF write_time < 0 THEN TRUE
         ELSE IF t < write_time THEN TRUE      \* checked_sub gave None
         ELSE NO_UPDATE_FLAG_DELAY < t - write_time

-----------------------------------------------------------------------------
(* Text: a string is a tuple of one-character strings.                     *)

\* str::contains(pat)
Contains(s, pat) ==
    \E i \in 1..(Len(s) - Len(pat) + 1) : SubSeq(s, i, i + Len(pat) - 1) = pat

\* Where pat first occurs in s, or 0.
FirstIndex(s, pat) ==
    LET at == {i \in 1..(Len(s) - Len(pat) + 1) :
                  SubSeq(s, i, i + Len(pat) - 1) = pat}
    IN IF at = {} THEN 0 ELSE CHOOSE i \in at : \A j \in at : i <= j

Digits == {"0", "1", "2", "3", "4", "5", "6", "7", "8", "9"}

\* [0-9]+ taken greedily from position i: the position of its last digit,
\* or i - 1 when s[i] is no digit.
RECURSIVE DigitsEnd(_, _)
DigitsEnd(s, i) ==
    IF i <= Len(s) /\ s[i] \in Digits THEN DigitsEnd(s, i + 1) ELSE i - 1

\* A "." at position i.
DotAt(s, i) == i <= Len(s) /\ s[i] = "."

\* Regex [0-9]+\.[0-9]+\.[0-9]+ anchored at position i: the position where
\* the match ends, or 0 when there is none.
MatchEnd(s, i) ==
    LET a == DigitsEnd(s, i) IN
    IF a < i \/ ~DotAt(s, a + 1) THEN 0
    ELSE LET b == DigitsEnd(s, a + 2) IN
         IF b < a + 2 \/ ~DotAt(s, b + 1) THEN 0
         ELSE LET c == DigitsEnd(s, b + 2) IN
              IF c < b + 2 THEN 0 ELSE c

\* sem_ver_regex.find_iter(line) from position i: the matches, left to
\* right, each search resuming where the previous match ended.
RECURSIVE find_iter(_, _)
find_iter(s, i) ==
    IF i > Len(s) THEN <<>>
    ELSE LET e == MatchEnd(s, i) IN
         IF e > 0 THEN <<SubSeq(s, i, e)>> \o find_iter(s, e + 1)
         ELSE find_iter(s, i + 1)

\* .last() gone wrong: the first match is taken.
last_match_first(s) ==
    LET ms == find_iter(s, 1) IN
    IF ms = <<>> THEN None ELSE Some(ms[1])

\* .last(): Option of the last match.
last_match(s) ==
    LET ms == find_iter(s, 1) IN
    IF ms = <<>> THEN None ELSE Some(ms[Len(ms)])

\* The literals of get_new_versions and get_rustup_check.
Separator == <<" ", "-", " ">>
UpToDate == <<"U", "p", " ", "t", "o", " ", "d", "a", "t", "e">>
UpdateAvailable == <<"U", "p", "d", "a", "t", "e", " ",
                     "a", "v", "a", "i", "l", "a", "b", "l", "e">>
Newline == "\n"

\* line.split(" - ").next(): the text before the first separator, the
\* whole line when there is none.
name_of(line) ==
    LET i == FirstIndex(line, Separator) IN
    IF i = 0 THEN line ELSE SubSeq(line, 1, i - 1)

\* stdout.split('\n').filter(|x| x.len() > 0).collect(), reading from
\* position i with cur the line gathered so far.
RECURSIVE split_lines(_, _, _)
split_lines(s, i, cur) ==
    IF i > Len(s) THEN (IF cur = <<>> THEN <<>> ELSE <<cur>>)
    ELSE IF s[i] = Newline
         THEN (IF cur = <<>> THEN <<>> ELSE <<cur>>) \o split_lines(s, i + 1, <<>>)
         ELSE split_lines(s, i + 1, Append(cur, s[i]))

-----------------------------------------------------------------------------
(* get_new_versions.                                                       *)

\* The result of a call that may panic.
Panic == [ok |-> FALSE, val |-> <<>>]
Ok(v) == [ok |-> TRUE, val |-> v]

\* HashMap::insert: the new entry replaces one with the same key.
insert(m, k, v) == (k :> v) @@ m

\* One turn of the loop over the lines: the entry the line stands for, or
\* a panic.
line_entry(line) ==
    IF Contains(line, UpToDate) THEN Ok(None)
    ELSE IF Contains(line, UpdateAvailable)
         THEN LET v == last_match(line) IN
              IF v = None THEN Panic ELSE Ok(v)
         ELSE Panic

\* get_new_versions(rustup_check_lines), from line i with the map m.
\* The loop gone wrong: a line that is neither up to date nor update
\* available, or has no version, is skipped.
RECURSIVE new_versions_from_skip(_, _, _)
new_versions_from_skip(lines, i, m) ==
    IF i > Len(lines) THEN Ok(m)
    ELSE LET e == line_entry(lines[i]) IN
         IF ~e.ok THEN new_versions_from_skip(lines, i + 1, m)
         ELSE new_versions_from_skip(lines, i + 1, insert(m, name_of(lines[i]), e.val))

RECURSIVE new_versions_from(_, _, _)
new_versions_from(lines, i, m) ==
    IF i > Len(lines) THEN Ok(m)
    ELSE LET e == line_entry(lines[i]) IN
         IF ~e.ok THEN Panic
         ELSE new_versions_from(lines, i + 1, insert(m, name_of(lines[i]), e.val))

get_new_versions(lines) == new_versions_from(lines, 1, <<>>)

\* new_versions.values().all(|x| x.is_none())
\* The test gone wrong: an empty report is not taken for "no new versions".
all_none_nonempty(m) == m # <<>> /\ \A k \in DOMAIN m : m[k] = None

all_none(m) == \A k \in DOMAIN m : m[k] = None

-----------------------------------------------------------------------------
(* prompt_for_update.                                                      *)

\* What zenity does when asked: whether the spawn works, and the exit
\* status (None when a signal ended it).
ExitCodes == {0, 1, 2, 5, 255}
ZenityOutcomes ==
    [spawn : {"Ok"}, code : {Some(c) : c \in ExitCodes} \cup {None}]
    \cup [spawn : {"NotFound", "Err"}, code : {None}]

\* The match gone wrong: exit code 5 is taken for a decline.
answer_of_5_declines(code) ==
    IF code = Some(0) THEN "Update"
    ELSE IF code \in {Some(1), Some(5)} THEN "DoNotUpdate"
    ELSE "Panic"

\* match prompt_response.code()
answer_of(code) ==
    IF code = Some(0) THEN "Update"
    ELSE IF code = Some(1) THEN "DoNotUpdate"
    ELSE IF code = Some(5) THEN "Timeout"
    ELSE "Panic"

\* prompt_for_update gone wrong: the test for "no new versions" is missing.
prompt_for_update_always(m, z) ==
    IF z.spawn # "Ok" THEN [ans |-> "Panic", spawned |-> 1]
    ELSE [ans |-> answer_of(z.code), spawned |-> 1]

\* prompt_for_update(new_versions) when zenity behaves as z: the answer
\* (or "Panic") and the number of zenity processes it asked for.
prompt_for_update(m, z) ==
    IF all_none(m) THEN [ans |-> "NoUpdateFound", spawned |-> 0]
    ELSE IF z.spawn # "Ok" THEN [ans |-> "Panic", spawned |-> 1]
    ELSE [ans |-> answer_of(z.code), spawned |-> 1]

-----------------------------------------------------------------------------
(* get_rustup_check.                                                       *)

\* Status lines rustup may print.
Colon == <<" ", ":", " ">>
Arrow == <<" ", "-", ">", " ">>
V111 == <<"1", ".", "1", ".", "1">>
V121 == <<"1", ".", "2", ".", "1">>
V122 == <<"1", ".", "2", ".", "2">>
NameS == <<"s">>
NameR == <<"r">>
LineUtdS == NameS \o Separator \o UpToDate \o Colon \o V121
LineUtdR == NameR \o Separator \o UpToDate \o Colon \o V111
LineUaS == NameS \o Separator \o UpdateAvailable \o Colon \o V121 \o Arrow \o V122
LineBad == NameS \o Separator \o <<"?">>
LineNoVer == NameR \o Separator \o UpdateAvailable
PoolLines == {LineUtdS, LineUtdR, LineUaS, LineBad, LineNoVer}

\* How many lines one status output holds at most.
MaxLines == 2

\* The lines, each ended by a newline.
RECURSIVE join_lines(_, _)
join_lines(ls, i) ==
    IF i > Len(ls) THEN <<>> ELSE ls[i] \o <<Newline>> \o join_lines(ls, i + 1)

Batches == UNION {[1..n -> PoolLines] : n \in 0..MaxLines}
Stdouts == {join_lines(b, 1) : b \in Batches} \cup {<<Newline>>}

\* What running `rustup check` can come to: the spawn fails, the exit
\* status is a failure (stderr names a download failure or not), stdout
\* is no UTF-8, or it succeeds with some stdout.
RustupOutcomes ==
    [kind : {"NotFound", "SpawnErr", "NoDownload", "ExitFailure", "BadUtf8"},
     stdout : {<<>>}]
    \cup [kind : {"Success"}, stdout : Stdouts]

get_rustup_check(o) ==
    IF o.kind # "Success" THEN Panic ELSE Ok(split_lines(o.stdout, 1, <<>>))

\* What running the upgrade in gnome-terminal can come to.
UpgradeOutcomes == {"Success", "ExitFailure", "SpawnErr"}

\* run_update(): Some(status.success()), or a panic when the command
\* cannot be run.
run_update(u) == IF u = "SpawnErr" THEN Panic ELSE Ok(u = "Success")

-----------------------------------------------------------------------------
(* auto_update.                                                            *)

Outcomes == {"NoUpdateFound", "Suppressed", "Applied", "Declined", "TimedOut"}

\* What a run leaves for the next one to be compared with.
NoSummary == [outcome |-> "none", report |-> <<>>, checked |-> None]
Summary(r) ==
    [outcome |-> outcome[r], report |-> new_versions[r], checked |-> checked[r]]

Quiet(r) == pc[r] \in {"idle", "done"}

\* The run that ended most recently, when one has.
LastSummary ==
    IF \E q \in Runs : pc[q] = "done"
    THEN Summary(CHOOSE q \in Runs : pc[q] = "done")
    ELSE NoSummary

InitRuns ==
    /\ pc = [r \in Runs |-> "idle"]
    /\ new_versions = [r \in Runs |-> <<>>]
    /\ outcome = [r \in Runs |-> "none"]
    /\ startedAt = [r \in Runs |-> 0]
    /\ flagAtStart = [r \in Runs |-> None]
    /\ checked = [r \in Runs |-> None]
    /\ dialogs = [r \in Runs |-> 0]
    /\ upgrades = [r \in Runs |-> 0]
    /\ writes = [r \in Runs |-> 0]
    /\ pred = [r \in Runs |-> NoSummary]
    /\ declinedAt = None
    /\ lastDecline = None
    /\ rustup_lines = [r \in Runs |-> None]
    /\ raced = FALSE
    /\ answer = [r \in Runs |-> "none"]
    /\ asked = [r \in Runs |-> None]

\* No library function has been called directly yet.  A call record keeps
\* the function, the clock at the call, its argument and its result, and
\* what set_no_update_flag() was last asked for: "set" or "clear", the
\* clock just before it, the flag it found, whether it returned Ok(()),
\* and whether the call before it asked the same.
NoCall ==
    [op |-> "none", at |-> 0, arg |-> <<>>, ret |-> <<>>,
     mut |-> "none", mutAt |-> 0, mutFound |-> None, mutOk |-> TRUE,
     repeated |-> FALSE]

Init ==
    /\ now \in StartNows
    /\ ticks = 0
    /\ flag \in {None} \cup {Some(t) : t \in InitMtimes}
    /\ InitRuns
    /\ call = NoCall

\* The clock advances by one of the amounts in steps, at most so many
\* times.
TickBy(steps, most) ==
    /\ ticks < most
    /\ \E d \in steps : now' = now + d
    /\ ticks' = ticks + 1
    /\ UNCHANGED <<flag, runVars, call>>

Tick == TickBy(TickSteps, MaxTicks)

\* The test gone wrong: there is no early return for "no new versions".
after_parse_no_return(parsed) == IF ~parsed.ok THEN "done" ELSE "gate"

\* Which branch auto_update takes once the status is parsed.
\* The test gone wrong: the early return is taken only when the report has
\* no entry at all.
after_parse_only_empty(parsed) ==
    IF ~parsed.ok THEN "done"
    ELSE IF parsed.val = <<>> THEN "clear" ELSE "gate"

after_parse(parsed) ==
    IF ~parsed.ok THEN "done"
    ELSE IF all_none(parsed.val) THEN "clear" ELSE "gate"

\* let rustup_lines = get_rustup_check();
\* let new_versions = get_new_versions(...);
status_report(o) ==
    LET lines == get_rustup_check(o) IN
    IF lines.ok THEN get_new_versions(lines.val) ELSE Panic

\* Every result the first two lines of auto_update can have.
StatusReports == {status_report(o) : o \in RustupOutcomes}

\* The same, each with the lines get_rustup_check() returned (None when
\* it panicked and rustup_lines was never bound).
status_run(o) ==
    LET lines == get_rustup_check(o) IN
    [lines |-> IF lines.ok THEN Some(lines.val) ELSE None,
     parsed |-> status_report(o)]

StatusRuns == {status_run(o) : o \in RustupOutcomes}

\* Whether a run other than r is under way.
Busy(r) == \E q \in Runs : q # r /\ ~Quiet(q)

\* A new process: run r starts afresh with fr, and the processes that have
\* exited are gone (their record goes back to z).
Fresh(r, f, fr, z) ==
    [q \in Runs |-> IF q = r THEN fr ELSE IF pc[q] = "done" THEN z ELSE f[q]]

\* auto_update() is entered: get_rustup_check(), get_new_versions() and
\* the test for "no new versions".
StartFrom(r, runs) ==
    /\ Quiet(r)
    /\ \E sr \in runs :
          LET parsed == sr.parsed
              nv == IF parsed.ok THEN parsed.val ELSE <<>>
              to == after_parse(parsed)
          IN /\ pc' = Fresh(r, pc, to, "idle")
             /\ rustup_lines' = Fresh(r, rustup_lines, sr.lines, None)
             /\ new_versions' = Fresh(r, new_versions, nv, <<>>)
             /\ outcome' = Fresh(r, outcome, IF to = "done" THEN "Fatal" ELSE "none", "none")
    /\ startedAt' = Fresh(r, startedAt, now, 0)
    /\ flagAtStart' = Fresh(r, flagAtStart, flag, None)
    /\ checked' = Fresh(r, checked, None, None)
    /\ dialogs' = Fresh(r, dialogs, 0, 0)
    /\ upgrades' = Fresh(r, upgrades, 0, 0)
    /\ writes' = Fresh(r, writes, 0, 0)
    /\ pred' = Fresh(r, pred, LastSummary, NoSummary)
    /\ answer' = Fresh(r, answer, "none", "none")
    /\ asked' = Fresh(r, asked, None, None)
    /\ raced' = (raced \/ Busy(r))
    /\ UNCHANGED <<now, ticks, flag, declinedAt, lastDecline, call>>

Start(r) == StartFrom(r, StatusRuns)

\* No new versions: set_no_update_flag(false)?, then Ok(()).
ClearFlagIo(r, denied) ==
    /\ pc[r] = "clear"
    /\ LET res == set_no_update_flag(FALSE, flag, now, denied, FALSE)
       IN /\ flag' = res.flag
          /\ outcome' = [outcome EXCEPT
                            ![r] = IF res.ok THEN "NoUpdateFound" ELSE "Fatal"]
          /\ declinedAt' = IF res.flag = None THEN None ELSE declinedAt
    /\ writes' = [writes EXCEPT ![r] = @ + 1]
    /\ pc' = [pc EXCEPT ![r] = "done"]
    /\ UNCHANGED <<now, ticks, new_versions, startedAt, flagAtStart, checked,
                   dialogs, upgrades, pred, lastDecline, rustup_lines,
                   raced, answer, asked, call>>

ClearFlag(r) == ClearFlagIo(r, FALSE)

\* if should_prompt() { ... } else { "won't prompt for a while" }
ShouldPromptIo(r, denied) ==
    /\ pc[r] = "gate"
    /\ LET go == should_prompt(flag, now, denied)
       IN /\ pc' = [pc EXCEPT ![r] = IF go THEN "prompt" ELSE "done"]
          /\ outcome' = [outcome EXCEPT ![r] = IF go THEN "none" ELSE "Suppressed"]
    /\ checked' = [checked EXCEPT ![r] = Some(<<now, flag, fs_result(flag, denied)>>)]
    /\ UNCHANGED <<now, ticks, flag, new_versions, startedAt, flagAtStart,
                   dialogs, upgrades, writes, pred, declinedAt, lastDecline,
                   rustup_lines, raced, answer, asked, call>>

ShouldPrompt(r) == ShouldPromptIo(r, FALSE)

\* The match gone wrong: a timeout is taken for a decline.
after_answer_timeout_declines(ans) ==
    IF ans \in {"DoNotUpdate", "Timeout"} THEN "set_remove"
    ELSE IF ans = "Update" THEN "update"
    ELSE "done"

\* Where the match on prompt_for_update's answer leads.
\* The match gone wrong: a timeout starts the upgrade.
after_answer_timeout_updates(ans) ==
    IF ans = "DoNotUpdate" THEN "set_remove"
    ELSE IF ans \in {"Update", "Timeout"} THEN "update"
    ELSE "done"

\* The match gone wrong: after a timeout the run waits for an answer that
\* never comes.
after_answer_timeout_waits(ans) ==
    IF ans = "DoNotUpdate" THEN "set_remove"
    ELSE IF ans = "Update" THEN "update"
    ELSE IF ans = "Timeout" THEN "waiting"
    ELSE "done"

after_answer(ans) ==
    IF ans = "DoNotUpdate" THEN "set_remove"
    ELSE IF ans = "Update" THEN "update"
    ELSE "done"

\* How the run has ended when the answer ends it.
outcome_of_answer(ans) ==
    IF ans = "Timeout" THEN "TimedOut"
    ELSE IF ans \in {"DoNotUpdate", "Update"} THEN "none"
    ELSE "Fatal"

\* match prompt_for_update(new_versions) { ... }
Prompt(r) ==
    /\ pc[r] = "prompt"
    /\ \E z \in ZenityOutcomes :
          LET res == prompt_for_update(new_versions[r], z)
          IN /\ dialogs' = [dialogs EXCEPT ![r] = @ + res.spawned]
             /\ pc' = [pc EXCEPT ![r] = after_answer(res.ans)]
             /\ outcome' = [outcome EXCEPT ![r] = outcome_of_answer(res.ans)]
             /\ answer' = [answer EXCEPT ![r] = res.ans]
             /\ asked' = [asked EXCEPT ![r] =
                             IF res.spawned > 0
                             THEN Some(<<now, declinedAt, lastDecline>>) ELSE @]
    /\ UNCHANGED <<now, ticks, flag, new_versions, startedAt, flagAtStart,
                   checked, upgrades, writes, pred, declinedAt, lastDecline,
                   rustup_lines, raced, call>>

\* UpdatePromptAnswer::Update: run_update(), panic unless it succeeded.
RunUpdate(r) ==
    /\ pc[r] = "update"
    /\ \E u \in UpgradeOutcomes :
          LET res == run_update(u)
          IN outcome' = [outcome EXCEPT
                            ![r] = IF res.ok /\ res.val THEN "Applied" ELSE "Fatal"]
    /\ upgrades' = [upgrades EXCEPT ![r] = @ + 1]
    /\ pc' = [pc EXCEPT ![r] = "done"]
    /\ UNCHANGED <<now, ticks, flag, new_versions, startedAt, flagAtStart,
                   checked, dialogs, writes, pred, declinedAt, lastDecline,
                   rustup_lines, raced, answer, asked, call>>

\* UpdatePromptAnswer::DoNotUpdate: set_no_update_flag(true)?, first
\* half: fs::remove_file(&path).
SetRemoveIo(r, denied) ==
    /\ pc[r] = "set_remove"
    /\ LET res == remove_step(flag, denied)
       IN /\ flag' = res.flag
          /\ pc' = [pc EXCEPT ![r] = IF res.ok THEN "set_create" ELSE "done"]
          /\ outcome' = [outcome EXCEPT ![r] = IF res.ok THEN "none" ELSE "Fatal"]
    /\ writes' = [writes EXCEPT ![r] = @ + 1]
    /\ UNCHANGED <<now, ticks, new_versions, startedAt, flagAtStart, checked,
                   dialogs, upgrades, pred, declinedAt, lastDecline,
                   rustup_lines, raced, answer, asked, call>>

SetRemove(r) == SetRemoveIo(r, FALSE)

\* set_no_update_flag(true)?, second half: fs::File::create(&path)?, then
\* auto_update returns Ok(()).
SetCreateIo(r, denied) ==
    /\ pc[r] = "set_create"
    /\ LET res == create_step(flag, now, denied)
       IN /\ flag' = res.flag
          /\ outcome' = [outcome EXCEPT ![r] = IF res.ok THEN "Declined" ELSE "Fatal"]
          /\ declinedAt' = IF res.ok THEN Some(now) ELSE declinedAt
          /\ lastDecline' = IF res.ok THEN Some(now) ELSE lastDecline
    /\ pc' = [pc EXCEPT ![r] = "done"]
    /\ UNCHANGED <<now, ticks, new_versions, startedAt, flagAtStart, checked,
                   dialogs, upgrades, writes, pred, rustup_lines, raced,
                   answer, asked, call>>

SetCreate(r) == SetCreateIo(r, FALSE)

\* One run at a time: a run is entered only while no other is under way.
\* Which process it is makes no difference, so it is the first.
StartAlone(r) == (\A q \in Runs : Quiet(q) /\ r <= q) /\ Start(r)

Next ==
    \/ Tick
    \/ \E r \in Runs :
          \/ StartAlone(r)
          \/ ClearFlag(r)
          \/ ShouldPrompt(r)
          \/ Prompt(r)
          \/ RunUpdate(r)
          \/ SetRemove(r)
          \/ SetCreate(r)

Spec == Init /\ [][Next]_vars

-----------------------------------------------------------------------------
(* The same runs, with a persistence layer that may fail: every call on    *)
(* the flag file may come back with an error other than NotFound.          *)

ClearFlagDenied(r) == ClearFlagIo(r, TRUE)
ShouldPromptDenied(r) == ShouldPromptIo(r, TRUE)
SetRemoveDenied(r) == SetRemoveIo(r, TRUE)
SetCreateDenied(r) == SetCreateIo(r, TRUE)

\* The status checks these runs start from: rustup cannot be found, or
\* prints one line: an update available, up to date, or malformed.
FewOutcomes ==
    [kind : {"NotFound"}, stdout : {<<>>}]
    \cup [kind : {"Success"},
          stdout : {join_lines(<<l>>, 1) : l \in {LineUaS, LineUtdS, LineBad}}]
FewRuns == {status_run(o) : o \in FewOutcomes}

\* One run at a time, as in Spec.
StartFew(r) == (\A q \in Runs : Quiet(q) /\ r <= q) /\ StartFrom(r, FewRuns)

FaultNext ==
    \/ Tick
    \/ \E r \in Runs :
          \/ StartFew(r)
          \/ ClearFlag(r)
          \/ ShouldPrompt(r)
          \/ Prompt(r)
          \/ RunUpdate(r)
          \/ SetRemove(r)
          \/ SetCreate(r)
          \/ ClearFlagDenied(r)
          \/ ShouldPromptDenied(r)
          \/ SetRemoveDenied(r)
          \/ SetCreateDenied(r)

FaultSpec == Init /\ [][FaultNext]_vars

-----------------------------------------------------------------------------
(* Runs whose every call returns.  auto_update is synchronous: each        *)
(* external command and each file-system call blocks until it is over, so  *)
(* a run that can take its next step does take it.                         *)

\* The next step of run r.
Step(r) ==
    \/ ClearFlag(r)
    \/ ShouldPrompt(r)
    \/ Prompt(r)
    \/ RunUpdate(r)
    \/ SetRemove(r)
    \/ SetCreate(r)

LiveNext ==
    \/ Tick
    \/ \E r \in Runs : StartFew(r)
    \/ \E r \in Runs : Step(r)

LiveSpec == Init /\ [][LiveNext]_vars /\ \A r \in Runs : WF_vars(Step(r))

-----------------------------------------------------------------------------
(* Several processes running auto_update at once: a run may be entered     *)
(* while another is under way, and their steps interleave freely.          *)

\* The status checks these runs start from: rustup prints one line, an
\* update available or up to date.
RaceOutcomes ==
    [kind : {"Success"},
     stdout : {join_lines(<<l>>, 1) : l \in {LineUaS, LineUtdS}}]
RaceRuns == {status_run(o) : o \in RaceOutcomes}

StartAny(r) == StartFrom(r, RaceRuns)

\* The first run finds no flag, at the epoch.
ConcInit ==
    /\ now = 0
    /\ ticks = 0
    /\ flag = None
    /\ InitRuns
    /\ call = NoCall

\* The clock advances by a second: the runs stay within one cooldown.
TickSecond == TickBy({1}, MaxRaceTicks)

ConcNext ==
    \/ TickSecond
    \/ \E r \in Runs : StartAny(r)
    \/ \E r \in Runs : Step(r)

ConcSpec == ConcInit /\ [][ConcNext]_vars

-----------------------------------------------------------------------------
(* The library functions called directly, as the unit tests call them.     *)

\* set_no_update_flag(write_new_flag).unwrap()
CallSetFlag(write_new_flag) ==
    LET res == set_no_update_flag(write_new_flag, flag, now, FALSE, FALSE)
        what == IF write_new_flag THEN "set" ELSE "clear"
    IN /\ flag' = res.flag
       /\ call' = [op |-> what, at |-> now, arg |-> <<>>, ret |-> <<>>,
                   mut |-> what, mutAt |-> now, mutFound |-> flag,
                   mutOk |-> res.ok, repeated |-> (call.mut = what)]
       /\ UNCHANGED <<now, ticks, runVars>>

CallSet == CallSetFlag(TRUE)
CallClear == CallSetFlag(FALSE)

\* read_no_update_flag()
CallRead ==
    /\ call' = [call EXCEPT !.op = "read", !.at = now, !.arg = flag,
                            !.ret = read_no_update_flag(flag, FALSE)]
    /\ UNCHANGED <<now, ticks, flag, runVars>>

\* should_prompt()
CallShouldPrompt ==
    /\ call' = [call EXCEPT !.op = "should_prompt", !.at = now, !.arg = flag,
                            !.ret = <<should_prompt(flag, now, FALSE)>>]
    /\ UNCHANGED <<now, ticks, flag, runVars>>

\* The reports prompt_for_update is called with.
Reports == {p.val : p \in {q \in StatusReports : q.ok}}

\* prompt_for_update(new_versions)
CallPrompt ==
    /\ \E m \in Reports, z \in ZenityOutcomes :
          call' = [call EXCEPT !.op = "prompt", !.at = now, !.arg = <<m, z>>,
                               !.ret = <<prompt_for_update(m, z)>>]
    /\ UNCHANGED <<now, ticks, flag, runVars>>

LibNext ==
    \/ Tick
    \/ CallSet
    \/ CallClear
    \/ CallRead
    \/ CallShouldPrompt
    \/ CallPrompt

LibSpec == Init /\ [][LibNext]_vars

-----------------------------------------------------------------------------
(* get_new_versions called directly, on lines of every shape.              *)

\* How many numbers a dot-separated run in a line's details holds at most.
MaxParts == 4

\* The numbers: one digit, or two.
Numbers == {<<"1">>, <<"2", "0">>}

\* The numbers of cs joined by dots.
RECURSIVE join_dots(_, _)
join_dots(cs, i) ==
    IF i > Len(cs) THEN <<>>
    ELSE IF i = Len(cs) THEN cs[i]
    ELSE cs[i] \o <<".">> \o join_dots(cs, i + 1)

DottedRuns == {join_dots(cs, 1) : cs \in UNION {[1..n -> Numbers] : n \in 1..MaxParts}}

\* A line's details: nothing, one run, or "old -> new".
Details ==
    {<<>>} \cup {Colon \o d : d \in DottedRuns}
    \cup {Colon \o old \o Arrow \o new : old \in DottedRuns, new \in DottedRuns}

\* What stands before the details: a name (plain, or a pinned toolchain
\* "1.2.1x"), the separator or nothing, perhaps one more field, and the
\* status (or something that is neither).
NamePinned == V121 \o <<"x">>
Heads ==
    {n \o sep \o mid \o st :
        n \in {NameS, NamePinned},
        sep \in {Separator, <<>>},
        mid \in {<<>>, <<"b">> \o Separator},
        st \in {UpToDate, UpdateAvailable, <<"?">>}}

ParseLines == {h \o d : h \in Heads, d \in Details}

\* The batches get_new_versions is called with: any one line, and the
\* status outputs of the pool.
ParseBatches == {<<l>> : l \in ParseLines} \cup Batches

ParseInit ==
    /\ now = 0
    /\ ticks = 0
    /\ flag = None
    /\ InitRuns
    /\ call = NoCall

\* get_new_versions(rustup_check_lines), once.
CallParse ==
    /\ call.op = "none"
    /\ \E b \in ParseBatches :
          call' = [call EXCEPT !.op = "parse", !.arg = b,
                               !.ret = <<get_new_versions(b)>>]
    /\ UNCHANGED <<now, ticks, flag, runVars>>

ParseNext == CallParse

ParseSpec == ParseInit /\ [][ParseNext]_vars

-----------------------------------------------------------------------------
(* The orchestrator's contract, checked under Spec.                        *)

\* The report of run r holds at least one available update.
HasUpdate(r) == pc[r] # "idle" /\ ~all_none(new_versions[r])

\* The run ended without a panic and without an error.
Succeeded(r) == pc[r] = "done" /\ outcome[r] \in Outcomes

\* Run r has consulted should_prompt() while the flag carried a timestamp
\* with lo <= clock - timestamp <= NO_UPDATE_FLAG_DELAY.
CheckedInWindow(r) ==
    /\ checked[r] # None
    /\ Unwrap(checked[r])[2] # None
    /\ LET c == Unwrap(checked[r])[1]
           t == Unwrap(Unwrap(checked[r])[2])
       IN 0 <= c - t /\ c - t <= NO_UPDATE_FLAG_DELAY

CheckedNonNegative(r) ==
    checked[r] # None /\ Unwrap(checked[r])[2] # None
    /\ Unwrap(Unwrap(checked[r])[2]) >= 0

\* The run ended Suppressed and touched nothing.
EndedSuppressed(r) ==
    /\ Succeeded(r) /\ outcome[r] = "Suppressed"
    /\ dialogs[r] = 0 /\ upgrades[r] = 0 /\ writes[r] = 0
    /\ flag = flagAtStart[r]

\* C1, as stated: a run with an available update that finds the flag with
\* 0 <= now - flagTime <= 86400 ends Suppressed: no dialog, no upgrade,
\* the flag unchanged, success.
C1_AsStated ==
    \A r \in Runs : (HasUpdate(r) /\ CheckedInWindow(r)) => EndedSuppressed(r)

\* C1, amended: the same for a flag whose timestamp is not before the Unix
\* epoch (a negative timestamp always prompts).
C1_SuppressedInWindow ==
    \A r \in Runs :
        (HasUpdate(r) /\ CheckedInWindow(r) /\ CheckedNonNegative(r))
            => EndedSuppressed(r)

\* C1 witness: a run with an update met a flag set exactly one cooldown
\* earlier and ended Suppressed.
C1_Witness ==
    \E r \in Runs :
        /\ HasUpdate(r) /\ CheckedInWindow(r) /\ CheckedNonNegative(r)
        /\ Unwrap(checked[r])[1] - Unwrap(Unwrap(checked[r])[2]) = NO_UPDATE_FLAG_DELAY
        /\ outcome[r] = "Suppressed"

\* No run is under way.
AllQuiet == \A r \in Runs : Quiet(r)

\* After a run the dialog answered DoNotUpdate to, the flag is present and
\* its timestamp is not older than that run.
DeclineLeavesFreshFlag ==
    \A r \in Runs :
        (AllQuiet /\ pc[r] = "done" /\ outcome[r] = "Declined")
            => /\ flag # None
               /\ startedAt[r] <= Unwrap(flag) /\ Unwrap(flag) <= now
               /\ declinedAt = flag

\* Run r is a later run than the decline recorded in declinedAt.
AfterDecline(r) ==
    /\ declinedAt # None
    /\ HasUpdate(r) /\ checked[r] # None
    /\ outcome[r] # "Declined"
    /\ Unwrap(declinedAt) <= startedAt[r]

\* C2, as stated: after a decline the flag is fresh, and every later run
\* with an update that starts at most 86400 s after the decline ends
\* Suppressed without a dialog, unless a run that found no updates cleared
\* the flag in between.
C2_AsStated ==
    /\ DeclineLeavesFreshFlag
    /\ \A r \in Runs :
          (AfterDecline(r)
           /\ startedAt[r] - Unwrap(declinedAt) <= NO_UPDATE_FLAG_DELAY)
              => (outcome[r] = "Suppressed" /\ dialogs[r] = 0)

\* C2, amended: the same for every later run whose should_prompt() check
\* happens at most 86400 s after the decline.
C2_DeclineSuppresses ==
    /\ DeclineLeavesFreshFlag
    /\ \A r \in Runs :
          (AfterDecline(r)
           /\ Unwrap(checked[r])[1] - Unwrap(declinedAt) <= NO_UPDATE_FLAG_DELAY)
              => (outcome[r] = "Suppressed" /\ dialogs[r] = 0)

\* C2 witness: a run that followed a decline by a whole cooldown ended
\* Suppressed.
C2_Witness ==
    \E r \in Runs :
        /\ AfterDecline(r)
        /\ pred[r].outcome = "Declined"
        /\ Unwrap(checked[r])[1] - Unwrap(declinedAt) = NO_UPDATE_FLAG_DELAY
        /\ outcome[r] = "Suppressed"

\* A run the dialog answered Timeout to has returned at once, writing
\* nothing and leaving the flag as it found it.
TimeoutKeepsFlag ==
    \A r \in Runs :
        outcome[r] = "TimedOut" =>
            (pc[r] = "done" /\ flag = flagAtStart[r] /\ writes[r] = 0)

\* Run r follows a run that timed out, with the same report, and has
\* consulted should_prompt().
AfterTimeout(r) ==
    /\ pred[r].outcome = "TimedOut"
    /\ HasUpdate(r) /\ new_versions[r] = pred[r].report
    /\ checked[r] # None

\* The flag the timed-out run before r read was not stamped later than
\* the clock it read.
PredFlagNotAhead(r) ==
    LET c == Unwrap(pred[r].checked) IN
    c[2] = None \/ Unwrap(c[2]) <= c[1]

\* C3, as stated: a Timeout run changes neither the flag's presence nor
\* its timestamp, so the next run with the same report prompts again.
C3_AsStated ==
    /\ TimeoutKeepsFlag
    /\ \A r \in Runs : AfterTimeout(r) => outcome[r] # "Suppressed"

\* C3, amended: a Timeout run changes neither the flag's presence nor its
\* timestamp, and the next run with the same report prompts again unless
\* the flag's timestamp lay in the future when the timed-out run read it.
C3_TimeoutReprompts ==
    /\ TimeoutKeepsFlag
    /\ \A r \in Runs :
          (AfterTimeout(r) /\ PredFlagNotAhead(r)) => outcome[r] # "Suppressed"

\* C3 witness: after a timeout that read an expired flag, the next run
\* with the same report has asked the dialog again.
C3_Witness ==
    \E r \in Runs :
        /\ AfterTimeout(r) /\ PredFlagNotAhead(r)
        /\ Unwrap(pred[r].checked)[2] # None
        /\ flag = Unwrap(pred[r].checked)[2]
        /\ dialogs[r] = 1

\* C4: a run whose report has every entry None ends NoUpdateFound with
\* the flag absent, whatever it was before, and with no dialog and no
\* upgrade.
C4_NoUpdateClears ==
    \A r \in Runs :
        /\ (pc[r] = "done" /\ outcome[r] # "Fatal" /\ all_none(new_versions[r]))
              => /\ outcome[r] = "NoUpdateFound"
                 /\ flag = None /\ dialogs[r] = 0 /\ upgrades[r] = 0
        /\ (pc[r] \notin {"idle", "done"} /\ all_none(new_versions[r]))
              => pc[r] = "clear"

\* C4 witness: a run with an all-None, non-empty report found a flag and
\* ended with it gone.
C4_Witness ==
    \E r \in Runs :
        /\ outcome[r] = "NoUpdateFound" /\ flagAtStart[r] # None
        /\ new_versions[r] # <<>> /\ flag = None

-----------------------------------------------------------------------------
(* The library functions' contract, checked under LibSpec.                 *)

\* should_prompt() was called with the flag present: its timestamp.
SawStamp == call.op = "should_prompt" /\ call.arg # None

\* C5, as stated: should_prompt(now) is true when the flag is absent; with
\* the flag stamped t it is true if t is later than now or now - t exceeds
\* 86400, and false otherwise.
C5_AsStated ==
    call.op = "should_prompt" =>
        Unwrap(call.ret) =
            (\/ call.arg = None
             \/ Unwrap(call.arg) > call.at
             \/ call.at - Unwrap(call.arg) > NO_UPDATE_FLAG_DELAY)

\* C5, amended: should_prompt(now) is true when the flag is absent; with
\* the flag stamped t it is true if t is before the Unix epoch, if t is
\* later than now, or if now - t exceeds 86400, and false otherwise.
C5_ShouldPrompt ==
    call.op = "should_prompt" =>
        Unwrap(call.ret) =
            (\/ call.arg = None
             \/ Unwrap(call.arg) < 0
             \/ Unwrap(call.arg) > call.at
             \/ call.at - Unwrap(call.arg) > NO_UPDATE_FLAG_DELAY)

\* C5 witness: asked exactly one cooldown after the flag's timestamp,
\* should_prompt() said no.
C5_Witness ==
    /\ SawStamp
    /\ call.at - Unwrap(call.arg) = NO_UPDATE_FLAG_DELAY
    /\ Unwrap(call.ret) = FALSE

\* C6: after any sequence of set() and clear(), should_prompt() asked less
\* than the cooldown later is false when the last of them was set() and
\* true when it was clear(), repeated or not.
C6_LastOperationDecides ==
    (call.op = "should_prompt" /\ call.at - call.mutAt < NO_UPDATE_FLAG_DELAY)
        => /\ call.mut = "set" => Unwrap(call.ret) = FALSE
           /\ call.mut = "clear" => Unwrap(call.ret) = TRUE

\* C6 witness: a second set() in a row, over a flag whose old timestamp
\* alone would have prompted, and should_prompt() said no.
C6_Witness ==
    /\ call.op = "should_prompt" /\ call.mut = "set" /\ call.repeated
    /\ call.at > call.mutAt
    /\ Unwrap(call.ret) = FALSE

\* C7: read() after set() gives Some(t) with t not before the clock just
\* ahead of set(), whatever flag set() found; read() after clear() gives
\* None; and clear() returns Ok(()) when there was no flag.
C7_RoundTrip ==
    /\ (call.op = "read" /\ call.mut = "set")
          => (call.ret # None /\ Unwrap(call.ret) >= call.mutAt)
    /\ (call.op = "read" /\ call.mut = "clear") => call.ret = None
    /\ (call.mut = "clear" /\ call.mutFound = None) => call.mutOk

\* C7 witness: set() found a flag stamped in the future and read() then
\* gave the clock of the set().
C7_Witness ==
    /\ call.op = "read" /\ call.mut = "set"
    /\ call.mutFound # None /\ Unwrap(call.mutFound) > call.mutAt
    /\ call.ret = Some(call.mutAt)

\* prompt_for_update was called: its report, what zenity would have done,
\* and what came back.
PromptReport == call.arg[1]
PromptZenity == call.arg[2]
PromptResult == Unwrap(call.ret)

\* C8: prompt_for_update on a report in which every value is None returns
\* NoUpdateFound and starts no external process.
C8_NoPromptWhenUpToDate ==
    (call.op = "prompt" /\ all_none(PromptReport))
        => (PromptResult.ans = "NoUpdateFound" /\ PromptResult.spawned = 0)

\* C8 witness: a report with two entries, both None, was answered
\* NoUpdateFound.
C8_Witness ==
    /\ call.op = "prompt" /\ all_none(PromptReport)
    /\ Cardinality(DOMAIN PromptReport) = 2
    /\ PromptResult.ans = "NoUpdateFound"

\* C9: with an available update, prompt_for_update asks zenity exactly
\* once; exit code 0 gives Update, 1 DoNotUpdate, 5 Timeout; any other
\* exit code, and no exit code, is a panic with no answer.
C9_ExitCodeMapping ==
    (call.op = "prompt" /\ ~all_none(PromptReport))
        => /\ PromptResult.spawned = 1
           /\ PromptZenity.spawn = "Ok" =>
                 /\ PromptZenity.code = Some(0) <=> PromptResult.ans = "Update"
                 /\ PromptZenity.code = Some(1) <=> PromptResult.ans = "DoNotUpdate"
                 /\ PromptZenity.code = Some(5) <=> PromptResult.ans = "Timeout"
                 /\ PromptZenity.code \notin {Some(0), Some(1), Some(5)}
                       <=> PromptResult.ans = "Panic"

\* C9 witness: zenity ended with exit code 5 and the answer was Timeout.
C9_Witness ==
    /\ call.op = "prompt" /\ ~all_none(PromptReport)
    /\ PromptZenity.code = Some(5)
    /\ PromptResult.ans = "Timeout"

-----------------------------------------------------------------------------
(* The parser's contract, checked under ParseSpec.                         *)

\* pat stands in s at position i.
At(s, i, pat) == i >= 1 /\ i + Len(pat) - 1 <= Len(s) /\ SubSeq(s, i, i + Len(pat) - 1) = pat

\* The first " - " of the line stands at position k.
FirstSeparatorAt(line, k) ==
    At(line, k, Separator) /\ \A j \in 1..(k - 1) : ~At(line, j, Separator)

\* The status, the text after the first separator, names the marker.
Marked(line, marker) ==
    \E k \in 1..Len(line) :
        /\ FirstSeparatorAt(line, k)
        /\ \E j \in (k + Len(Separator))..Len(line) : At(line, j, marker)

\* The places where a number begins, and those where a numeric triple
\* (number "." number "." number, the numbers whole) begins.
NumberStarts(line) ==
    {i \in 1..Len(line) : line[i] \in Digits /\ (i = 1 \/ line[i - 1] \notin Digits)}
TripleStarts(line) == {i \in NumberStarts(line) : MatchEnd(line, i) > 0}

\* A well-formed line: a name, the separator, and a status that is either
\* up to date, or update available with a numeric triple in the line.
WellFormedUpToDate(line) ==
    Marked(line, UpToDate) /\ ~Marked(line, UpdateAvailable)
WellFormedAvailable(line) ==
    /\ Marked(line, UpdateAvailable) /\ ~Marked(line, UpToDate)
    /\ TripleStarts(line) # {}
WellFormed(line) == WellFormedUpToDate(line) \/ WellFormedAvailable(line)

\* The text before the first separator.
TextBeforeSeparator(line) ==
    LET k == CHOOSE k \in 1..Len(line) : FirstSeparatorAt(line, k)
    IN SubSeq(line, 1, k - 1)

\* The triple that begins at position i.
TripleAt(line, i) == SubSeq(line, i, MatchEnd(line, i))

\* The greatest member of a non-empty set of positions.
Greatest(S) == CHOOSE i \in S : \A j \in S : j <= i

\* The last numeric triple occurring anywhere in the line.
LastTriple(line) == TripleAt(line, Greatest(TripleStarts(line)))

\* Where the number that ends at position k begins.
RECURSIVE NumberStart(_, _)
NumberStart(line, k) ==
    IF k > 1 /\ line[k - 1] \in Digits THEN NumberStart(line, k - 1) ELSE k

\* How many numbers stand before position i in its run of dot-separated
\* numbers.
RECURSIVE NumbersBefore(_, _)
NumbersBefore(line, i) ==
    IF i > 2 /\ line[i - 1] = "." /\ line[i - 2] \in Digits
    THEN 1 + NumbersBefore(line, NumberStart(line, i - 2))
    ELSE 0

\* The last triple that a multiple of three numbers precedes in its run:
\* what a scan from the left that never overlaps two matches ends with.
LastScannedTriple(line) ==
    TripleAt(line, Greatest({i \in TripleStarts(line) :
                                NumbersBefore(line, i) % 3 = 0}))

\* get_new_versions was called: its lines and its result.
ParsedLines == call.arg
ParseResult == Unwrap(call.ret)

\* No later line of the batch carries the same name.
LastOfItsName(i) ==
    \A j \in (i + 1)..Len(ParsedLines) :
        name_of(ParsedLines[j]) # name_of(ParsedLines[i])

\* Every well-formed line has its entry in the report, keyed by the text
\* before the first separator: None when up to date, Some(v) when an
\* update is available, v being the last scanned triple (scanned = TRUE)
\* or the last triple of the line (scanned = FALSE).
MapsEachLine(scanned) ==
    call.op = "parse" =>
        /\ (\A i \in 1..Len(ParsedLines) : WellFormed(ParsedLines[i]))
              => ParseResult.ok
        /\ ParseResult.ok =>
              \A i \in 1..Len(ParsedLines) :
                  LET line == ParsedLines[i]
                      key == TextBeforeSeparator(line)
                      v == IF scanned THEN LastScannedTriple(line)
                           ELSE LastTriple(line)
                  IN (WellFormed(line) /\ LastOfItsName(i)) =>
                        /\ key \in DOMAIN ParseResult.val
                        /\ WellFormedUpToDate(line) => ParseResult.val[key] = None
                        /\ WellFormedAvailable(line) => ParseResult.val[key] = Some(v)

\* C10, as stated: each well-formed line has an entry keyed by the text
\* before the first " - "; an up-to-date line maps to None and an
\* update-available line to Some(v), v exactly the last numeric triple
\* occurring anywhere in the line.
C10_AsStated == MapsEachLine(FALSE)

\* C10, amended: the same, with v the last match of a scan from the left
\* that never overlaps two matches: the last triple preceded, in its run
\* of dot-separated numbers, by a multiple of three numbers.
C10_ParsesEachLine == MapsEachLine(TRUE)

\* C10 witness: "s - b - Update available : 1.1.1 -> 1.1.20" gave
\* s -> Some("1.1.20").
C10_Witness ==
    /\ call.op = "parse"
    /\ ParsedLines = <<NameS \o Separator \o <<"b">> \o Separator
                       \o UpdateAvailable \o Colon \o V111 \o Arrow
                       \o <<"1", ".", "1", ".", "2", "0">>>>
    /\ ParseResult = Ok(NameS :> Some(<<"1", ".", "1", ".", "2", "0">>))

-----------------------------------------------------------------------------
(* Failures, checked under Spec.                                           *)

\* The line carries neither marker, or it is an update-available line
\* (it carries that marker and not the up-to-date one) with no numeric
\* triple in it.
Malformed(line) ==
    /\ ~Contains(line, UpToDate)
    /\ ~Contains(line, UpdateAvailable) \/ TripleStarts(line) = {}

\* get_rustup_check() gave run r a batch with a malformed line in it.
HasMalformedLine(r) ==
    /\ rustup_lines[r] # None
    /\ \E i \in 1..Len(Unwrap(rustup_lines[r])) : Malformed(Unwrap(rustup_lines[r])[i])

\* The run is over, fatally, and has touched neither the flag, nor the
\* dialog, nor the upgrade.
AbortedUntouched(r) ==
    /\ pc[r] = "done" /\ outcome[r] = "Fatal"
    /\ checked[r] = None /\ dialogs[r] = 0 /\ upgrades[r] = 0 /\ writes[r] = 0
    /\ flag = flagAtStart[r]

\* C11: a batch with a line that carries neither marker, or with an
\* update-available line that has no numeric triple, makes parsing fail
\* for the whole batch: the run has no report and is over, fatally, before
\* the flag, the dialog or the upgrade is touched.
C11_MalformedIsFatal ==
    \A r \in Runs :
        HasMalformedLine(r) => (new_versions[r] = <<>> /\ AbortedUntouched(r))

\* C11 witness: a well-formed line followed by a malformed one, the flag
\* present: the run is over, fatally, the flag as it was.
C11_Witness ==
    \E r \in Runs :
        /\ rustup_lines[r] = Some(<<LineUaS, LineNoVer>>)
        /\ flagAtStart[r] # None
        /\ AbortedUntouched(r)

-----------------------------------------------------------------------------
(* Failures of the persistence layer, checked under FaultSpec.             *)

\* The run is over with a panic or an error.
Aborted(r) == pc[r] = "done" /\ outcome[r] = "Fatal"

\* C12, as stated: a run that aborts with a fatal condition has not
\* changed the flag: its presence and timestamp are those the run found.
C12_AsStated == \A r \in Runs : Aborted(r) => flag = flagAtStart[r]

\* C13, as stated: after a run in which the user answered Update and the
\* upgrade succeeded, the flag is absent.
C13_AsStated ==
    \A r \in Runs : (pc[r] = "done" /\ outcome[r] = "Applied") => flag = None

\* Opening the flag failed with an error other than NotFound when run r
\* consulted should_prompt().
ReadDenied(r) == checked[r] # None /\ Unwrap(checked[r])[3] = "Denied"

\* C14, as stated: an I/O error other than not-found while reading the
\* flag is fatal and ends the run; should_prompt never takes it for an
\* absent flag, so no dialog follows it.
C14_AsStated ==
    \A r \in Runs : ReadDenied(r) => (Aborted(r) /\ dialogs[r] = 0)

-----------------------------------------------------------------------------
(* The order of a run's steps, checked under Spec.                         *)

\* should_prompt() was consulted by run r and what it read lets it return
\* true: no flag, a timestamp before the epoch or ahead of the clock, or
\* one older than the cooldown.
GateOpen(r) ==
    /\ checked[r] # None
    /\ LET c == Unwrap(checked[r])[1]
           f == Unwrap(checked[r])[2]
       IN \/ f = None
          \/ Unwrap(f) < 0
          \/ Unwrap(f) > c
          \/ c - Unwrap(f) > NO_UPDATE_FLAG_DELAY

\* Run r invokes the dialog in this step: it has not before, its status
\* check and parse succeeded with an update available, and should_prompt()
\* returned true.
DialogInOrder(r) ==
    dialogs'[r] > dialogs[r] =>
        /\ dialogs[r] = 0 /\ upgrades[r] = 0 /\ writes[r] = 0
        /\ rustup_lines[r] # None /\ HasUpdate(r)
        /\ GateOpen(r)

\* Run r invokes the upgrade in this step: it has not before, and its own
\* dialog returned Update.
UpgradeInOrder(r) ==
    upgrades'[r] > upgrades[r] =>
        /\ upgrades[r] = 0 /\ writes[r] = 0
        /\ dialogs[r] = 1 /\ answer[r] = "Update"

\* Run r calls set_no_update_flag in this step: it has not before, and
\* once it has, it invokes neither the dialog nor the upgrade.
FlagWriteLast(r) ==
    /\ writes'[r] > writes[r] => writes[r] = 0
    /\ (writes[r] > 0 /\ writes'[r] > 0) =>
          (dialogs'[r] = dialogs[r] /\ upgrades'[r] = upgrades[r])

\* The flag changes in this step: a run is inside its one call of
\* set_no_update_flag, and the step ends the run or leaves only the
\* creating half of that call.
FlagChangeInSet ==
    flag' # flag =>
        \E r \in Runs :
            /\ pc[r] \in {"clear", "set_remove", "set_create"}
            /\ writes'[r] = 1
            /\ pc'[r] \in {"set_create", "done"}

\* C15: within one run the dialog is invoked at most once and only after
\* the status check and parse succeeded, an update is available and
\* should_prompt returned true; the upgrade is invoked at most once and only
\* after the dialog of that run returned Update; set_no_update_flag is
\* called at most once and nothing is invoked after it.
C15_Ordering ==
    [][/\ \A r \in Runs : DialogInOrder(r) /\ UpgradeInOrder(r) /\ FlagWriteLast(r)
       /\ FlagChangeInSet]_vars

\* C15 witness: a run checked, parsed, consulted should_prompt, asked the
\* dialog once, got Update and ran the upgrade once, without writing the
\* flag.
C15_Witness ==
    \E r \in Runs :
        /\ pc[r] = "done" /\ outcome[r] = "Applied"
        /\ GateOpen(r) /\ dialogs[r] = 1 /\ answer[r] = "Update"
        /\ upgrades[r] = 1 /\ writes[r] = 0

-----------------------------------------------------------------------------
(* The unreachable arm and the empty report, checked under Spec.           *)

\* Some entry of the report is Some(version).
HasSomeEntry(m) == \E k \in DOMAIN m : m[k] # None

\* C16: whenever auto_update is about to call prompt_for_update, or has
\* called it, the report has at least one Some entry, and the answer was
\* never NoUpdateFound: the "This should have been handled above" panic
\* never fires.
C16_ArmUnreachable ==
    \A r \in Runs :
        /\ (pc[r] = "prompt" \/ answer[r] # "none") => HasSomeEntry(new_versions[r])
        /\ answer[r] # "NoUpdateFound"

\* C16 witness: a report with one entry None and one Some went to
\* prompt_for_update, which asked zenity.
C16_Witness ==
    \E r \in Runs :
        /\ answer[r] \in {"Update", "DoNotUpdate", "Timeout"}
        /\ dialogs[r] = 1
        /\ \E k \in DOMAIN new_versions[r] : new_versions[r][k] = None
        /\ HasSomeEntry(new_versions[r])

\* The status output of run r had no non-empty line.
EmptyOutput(r) == rustup_lines[r] = Some(<<>>)

\* C19: a status output with no non-empty line gives an empty report,
\* which is treated as all up to date: the run ends NoUpdateFound with the
\* flag absent and no dialog, whatever decline the flag stood for.
C19_EmptyOutputClears ==
    \A r \in Runs :
        EmptyOutput(r) =>
            /\ new_versions[r] = <<>>
            /\ pc[r] \in {"clear", "done"}
            /\ dialogs[r] = 0 /\ upgrades[r] = 0 /\ checked[r] = None
            /\ pc[r] = "done" =>
                  (outcome[r] = "NoUpdateFound" /\ flag = None /\ declinedAt = None)

\* C19 witness: a decline was written less than a day ago, and a run with
\* an empty status output has ended NoUpdateFound and removed the flag.
C19_Witness ==
    \E r \in Runs :
        /\ EmptyOutput(r) /\ pc[r] = "done" /\ outcome[r] = "NoUpdateFound"
        /\ pred[r].outcome = "Declined"
        /\ lastDecline # None
        /\ now - Unwrap(lastDecline) < NO_UPDATE_FLAG_DELAY
        /\ flagAtStart[r] = lastDecline
        /\ flag = None

-----------------------------------------------------------------------------
(* Termination, checked under LiveSpec.                                    *)

\* The run has reached exactly one end: one of the five outcomes, or a
\* fatal abort.
Ended(r) == pc[r] = "done" /\ outcome[r] \in Outcomes \cup {"Fatal"}

\* What run r has done and how it stands.
Doings(r) ==
    <<pc[r], outcome[r], answer[r], checked[r], dialogs[r], upgrades[r], writes[r]>>

\* Once ended, run r does nothing more and, no run being under way, the
\* flag stays as it is: only a new process, entering auto_update afresh,
\* changes anything.
EndIsFinal(r) ==
    Ended(r) =>
        \/ \E q \in Runs : Start(q)
        \/ Doings(r)' = Doings(r) /\ (AllQuiet => flag' = flag)

\* C17: a run that was entered reaches, each call returning, one of
\* NoUpdateFound, Suppressed, Applied, Declined, TimedOut or a fatal abort,
\* and takes no step after it; a run never goes back to a step it has taken.
C17_Terminates ==
    /\ \A r \in Runs : (pc[r] # "idle") ~> Ended(r)
    /\ [][\A r \in Runs : EndIsFinal(r)]_vars

\* C17 witness: a run has gone the longest way (status, should_prompt,
\* dialog, removal, creation) and ended Declined.
C17_Witness ==
    \E r \in Runs :
        /\ Ended(r) /\ outcome[r] = "Declined"
        /\ dialogs[r] = 1 /\ writes[r] = 1 /\ flag = Some(now)

-----------------------------------------------------------------------------
(* The race on the flag, checked under ConcSpec.                           *)

\* The decline d was written less than a cooldown before clock c.
Recent(d, c) ==
    d # None /\ 0 <= c - Unwrap(d) /\ c - Unwrap(d) < NO_UPDATE_FLAG_DELAY

\* Run r spawned zenity although a decline had been written less than
\* 86400 seconds before, cleared since or not.
AskedAfterDecline(r) ==
    asked[r] # None /\ Recent(Unwrap(asked[r])[3], Unwrap(asked[r])[1])

\* Run r spawned zenity although the flag stood for a decline written less
\* than 86400 seconds before.
AskedDespiteFlag(r) ==
    asked[r] # None /\ Recent(Unwrap(asked[r])[2], Unwrap(asked[r])[1])

\* C18, as stated: the dialog is invoked less than 86400 seconds after a
\* decline was recorded only in executions where runs have overlapped; with
\* one run at a time it never is.
C18_AsStated == \A r \in Runs : AskedAfterDecline(r) => raced

\* C18, amended: the dialog is invoked less than 86400 seconds after a
\* decline that no run has cleared since only in executions where runs
\* have overlapped; with one run at a time it never is.
C18_RaceNeedsOverlap == \A r \in Runs : AskedDespiteFlag(r) => raced

\* C18 witness: two runs interleaved; one passed should_prompt() before
\* the other wrote its decline, and spawned zenity after it, the flag
\* present and fresh.
C18_Witness ==
    \E r \in Runs :
        /\ AskedDespiteFlag(r) /\ raced /\ dialogs[r] = 1
        /\ Unwrap(asked[r])[2] = flag
        /\ \E q \in Runs : q # r /\ outcome[q] = "Declined"

=============================================================================
